---- MODULE Spec2Model ----
(***************************************************************************)
(* Model of the keiba racecard scraper.                                    *)
(*                                                                         *)
(*   Spec         backend/app.py: the POST /api/update/race handler        *)
(*                (update_race), its re-entrancy guard and the three       *)
(*                atomic_write_json calls, run by several server threads.  *)
(*   SpecEntry    backend/scraper/race.py: the GUARD and FETCH stages of   *)
(*                scrape_race_data for every clock reading and every       *)
(*                combination of the source-selecting arguments.           *)
(*   SpecVenues   backend/scraper/race.py: the all-venues browser fetch    *)
(*                (fetch_all_syutsuba_with_playwright) as scrape_race_data *)
(*                calls it, and the PARSE, MERGE and day-aliasing steps    *)
(*                scrape_race_data runs on the pairs it returns.           *)
(*   SpecEnrich   backend/scraper/race.py: the ENRICH_HORSE and            *)
(*                ENRICH_JOCKEY stages of scrape_race_data over the horse  *)
(*                records of the flat venues view.                         *)
(*   SpecDate     backend/scraper/race.py: weekday_key and                 *)
(*                extract_venue_from_date over the date lines of the site. *)
(*   SpecSanitize backend/scraper/race.py: sanitize_race_data as update_race *)
(*                calls it on the aggregate, and once more on its result.  *)
(***************************************************************************)
EXTENDS Integers, Sequences, FiniteSets, TLC

(***************************************************************************)
(* Bounds                                                                  *)
(***************************************************************************)
\* number of server threads that can run update_race at the same time
NumThreads == 2
\* total number of POST requests that arrive in one behaviour
MaxArrivals == 3
\* number of write() calls json.dump needs for one document
Chunks == 2
\* number of venue announcement links on the racecard index page
MaxVenues == 3
\* number of horses in the flat venues view of a parsed racecard
MaxHorses == 2

(***************************************************************************)
(* backend/app.py                                                          *)
(***************************************************************************)
Threads == 1..NumThreads

\* RACE_JSON_PATH, HORSE_JSON_PATH, JOCKEY_JSON_PATH in the order update_race
\* writes them
DocPaths == <<"RaceTest.json", "HorseTest.json", "JockeyTest.json">>

Docs == {DocPaths[i] : i \in 1..Len(DocPaths)}

\* path.with_suffix(path.suffix + ".tmp")
WithTmpSuffix_inplace(p) == p

WithTmpSuffix(p) ==
    CASE p = "RaceTest.json" -> "RaceTest.json.tmp"
      [] p = "HorseTest.json" -> "HorseTest.json.tmp"
      [] p = "JockeyTest.json" -> "JockeyTest.json.tmp"
      [] OTHER -> p

Paths == Docs \cup {"RaceTest.json.tmp", "HorseTest.json.tmp", "JockeyTest.json.tmp"}

\* a file: absent, or the first len chunks of the document of request ver
NoFile == [exists |-> FALSE, ver |-> 0, len |-> 0]

Complete(c) == c.exists /\ c.ver > 0 /\ c.len = Chunks

\* threading.Lock: acquire succeeds only when nobody holds it
LockFree_broken(l) == TRUE

LockFree(l) == l = 0

\* the except clauses of update_race: exception class -> response status
Handler_broad(exc) == "aborted"

Handler(exc) == IF exc = "AbortScrapeError" THEN "aborted" ELSE "error"

\* where control goes once the response of a started request is chosen:
\* the finally clause, whatever the status
AfterHandler_skip(st) == IF st = "ok" THEN "finally" ELSE "done"

AfterHandler(st) == "finally"

VARIABLES
    lock,        \* _lock: 0 when free, else the thread that holds it
    is_running,  \* _is_running
    pc,          \* position of every thread in update_race
    status,      \* response status of the thread's current request
    ver,         \* generation of the data the thread's scrape returned
    cur,         \* index in DocPaths of the document the thread is writing
    fs,          \* the file system: path -> file
    before,      \* the three documents as they were when the guard was taken
    clock,       \* number of scrapes that returned data so far
    arrivals     \* number of requests received so far

shellVars == <<lock, is_running, pc, status, ver, cur, fs, before, clock, arrivals>>

VARIABLES
    now_day,        \* weekday of datetime.now(JST)
    now_hour,       \* hour of datetime.now(JST)
    allow_partial,  \* arguments of scrape_race_data ...
    all_venues,
    source_url,     \* "" stands for None or the empty string
    use_playwright,
    venue_keyword,  \* "" stands for None or the empty string
    html_exists,    \* (html_path or DEFAULT_HTML_PATH).exists()
    stage,          \* GUARD, FETCH, PARSE or ABORTED
    reason,         \* which raise ended the call
    io              \* the fetches and file reads performed, in order

entryVars == <<now_day, now_hour, allow_partial, all_venues, source_url,
               use_playwright, venue_keyword, html_exists, stage, reason, io>>

VARIABLES
    v_pc,         \* position in fetch_all_syutsuba_with_playwright
    labels,       \* labels: the announcement texts collected from the index
    vi,           \* index in labels of the venue visited next
    results,      \* results: the (venue_label, html) pairs appended so far
    venues_html,  \* what scrape_race_data receives from the call
    v_reason      \* message of the AbortScrapeError the call raised

venueVars == <<v_pc, labels, vi, results, venues_html, v_reason>>

VARIABLES
    e_pc,                 \* enrich_horse, enrich_jockey, attach or done
    fetch_horse_detail,   \* arguments of scrape_race_data
    fetch_jockey_detail,
    horses,               \* the horse dicts of data["venues"], in loop order
    hi,                   \* index of the horse the running loop visits next
    jockey_seen,          \* jockey_seen: name -> detail, NotSeen when absent
    applied,              \* outcome of the try block of the last horse visit
    h_outcome,            \* per horse: how ENRICH_HORSE left it
    j_fetches,            \* per jockey name: static fetches issued
    j_failed,             \* jockey names for which a detail attempt failed
    day_horses            \* the horse dicts under data["days"], same order

enrichVars == <<e_pc, fetch_horse_detail, fetch_jockey_detail, horses, hi,
                jockey_seen, applied, h_outcome, j_fetches, j_failed,
                day_horses>>

VARIABLES
    date_text,     \* text of the first race header's .date_line .date
    day_key,       \* weekday_key(date_text), "" while not computed
    parsed_venue   \* extract_venue_from_date(date_text)

dateVars == <<date_text, day_key, parsed_venue>>

VARIABLES
    m_pc,        \* position in the all-venues branch of scrape_race_data
    mi,          \* index in venues_html of the pair parsed next
    merged,      \* merged: the aggregate, with set FALSE while it is None
    heap,        \* the Day-block objects the aggregate refers to, by reference
    target_day,  \* argument of scrape_race_data, "" for None
    aliased      \* the call added target_day to days

mergeVars == <<m_pc, mi, merged, heap, target_day, aliased>>

VARIABLES
    s_pc,      \* position in sanitize_race_data and its caller
    mem,       \* the document objects, by reference
    caller_data,  \* reference held by the caller: the aggregate passed in
    new_data,  \* reference held by sanitize_race_data, 0 before the copy
    given,     \* the aggregate as it was when the call was made
    returned,  \* the document the call returned
    again      \* the document a second call returned for the first result

sanVars == <<s_pc, mem, caller_data, new_data, given, returned, again>>

vars == <<shellVars, entryVars, venueVars, enrichVars, dateVars, mergeVars, sanVars>>

DocState == [d \in Docs |-> fs[d]]

\* the thread is between taking the guard and releasing it
InGuard(t) == pc[t] \in {"scrape", "open", "dump", "replace", "respond",
                         "finally", "release"}

ShellInit ==
    /\ lock = 0
    /\ is_running = FALSE
    /\ pc = [t \in Threads |-> "idle"]
    /\ status = [t \in Threads |-> "none"]
    /\ ver = [t \in Threads |-> 0]
    /\ cur = [t \in Threads |-> 0]
    /\ fs = [p \in Paths |-> NoFile]
    /\ before = [t \in Threads |-> [d \in Docs |-> NoFile]]
    /\ clock = 0
    /\ arrivals = 0

\* a POST /api/update/race request is dispatched to thread t
Arrive(t) ==
    /\ pc[t] \in {"idle", "done"}
    /\ arrivals < MaxArrivals
    /\ arrivals' = arrivals + 1
    /\ pc' = [pc EXCEPT ![t] = "lock"]
    /\ status' = [status EXCEPT ![t] = "none"]
    /\ ver' = [ver EXCEPT ![t] = 0]
    /\ cur' = [cur EXCEPT ![t] = 0]
    /\ before' = [before EXCEPT ![t] = [d \in Docs |-> NoFile]]
    /\ UNCHANGED <<lock, is_running, fs, clock>>

\* with _lock: (entry)
EnterLock(t) ==
    /\ pc[t] = "lock"
    /\ LockFree(lock)
    /\ lock' = t
    /\ pc' = [pc EXCEPT ![t] = "check"]
    /\ UNCHANGED <<is_running, status, ver, cur, fs, before, clock, arrivals>>

\* if _is_running: return busy, 409 (leaves the with block)
Busy(t) ==
    /\ pc[t] = "check"
    /\ is_running
    /\ status' = [status EXCEPT ![t] = "busy"]
    /\ lock' = 0
    /\ pc' = [pc EXCEPT ![t] = "done"]
    /\ UNCHANGED <<is_running, ver, cur, fs, before, clock, arrivals>>

\* the test found the flag clear
CheckClear(t) ==
    /\ pc[t] = "check"
    /\ ~is_running
    /\ pc' = [pc EXCEPT ![t] = "set"]
    /\ UNCHANGED <<lock, is_running, status, ver, cur, fs, before, clock, arrivals>>

\* _is_running = True (and the with block ends)
SetRunning(t) ==
    /\ pc[t] = "set"
    /\ is_running' = TRUE
    /\ lock' = 0
    /\ before' = [before EXCEPT ![t] = DocState]
    /\ pc' = [pc EXCEPT ![t] = "scrape"]
    /\ UNCHANGED <<status, ver, cur, fs, clock, arrivals>>

\* the response of a started request is chosen; the finally clause is next
Respond(t, st) ==
    /\ status' = [status EXCEPT ![t] = st]
    /\ pc' = [pc EXCEPT ![t] = AfterHandler(st)]

\* scrape_race_data returns the aggregate; generated_at is stamped
ScrapeOk(t) ==
    /\ pc[t] = "scrape"
    /\ clock' = clock + 1
    /\ ver' = [ver EXCEPT ![t] = clock + 1]
    /\ cur' = [cur EXCEPT ![t] = 1]
    /\ pc' = [pc EXCEPT ![t] = "open"]
    /\ UNCHANGED <<lock, is_running, status, fs, before, arrivals>>

\* scrape_race_data raises: the abort condition or anything else
ScrapeRaise(t) ==
    /\ pc[t] = "scrape"
    /\ \E exc \in {"AbortScrapeError", "Exception"} : Respond(t, Handler(exc))
    /\ UNCHANGED <<lock, is_running, ver, cur, fs, before, clock, arrivals>>

\* atomic_write_json: mkdir, then tmp.open("w") creates or truncates tmp
OpenTmp(t) ==
    /\ pc[t] = "open"
    /\ fs' = [fs EXCEPT ![WithTmpSuffix(DocPaths[cur[t]])] =
                 [exists |-> TRUE, ver |-> ver[t], len |-> 0]]
    /\ pc' = [pc EXCEPT ![t] = "dump"]
    /\ UNCHANGED <<lock, is_running, status, ver, cur, before, clock, arrivals>>

\* atomic_write_json: json.dump writes the next chunk; the last one closes f
DumpChunk(t) ==
    /\ pc[t] = "dump"
    /\ LET p == WithTmpSuffix(DocPaths[cur[t]])
           n == fs[p].len + 1
       IN /\ fs' = [fs EXCEPT ![p] = [exists |-> TRUE, ver |-> ver[t], len |-> n]]
          /\ pc' = [pc EXCEPT ![t] = IF n >= Chunks THEN "replace" ELSE "dump"]
    /\ UNCHANGED <<lock, is_running, status, ver, cur, before, clock, arrivals>>

\* atomic_write_json: tmp.replace(path), then on to the next document
ReplaceDoc(t) ==
    /\ pc[t] = "replace"
    /\ LET d == DocPaths[cur[t]]
           p == WithTmpSuffix(d)
       IN fs' = [q \in Paths |-> IF q = d THEN fs[p]
                                 ELSE IF q = p THEN NoFile ELSE fs[q]]
    /\ IF cur[t] < Len(DocPaths)
         THEN /\ cur' = [cur EXCEPT ![t] = cur[t] + 1]
              /\ pc' = [pc EXCEPT ![t] = "open"]
         ELSE /\ cur' = cur
              /\ pc' = [pc EXCEPT ![t] = "respond"]
    /\ UNCHANGED <<lock, is_running, status, ver, before, clock, arrivals>>

\* mkdir, open, a write or the rename raises OSError: nothing more is done
\* to the files by this call
IOFail(t) ==
    /\ pc[t] \in {"open", "dump", "replace"}
    /\ Respond(t, Handler("OSError"))
    /\ UNCHANGED <<lock, is_running, ver, cur, fs, before, clock, arrivals>>

\* return jsonify({"status": "ok", ...})
RespondOk(t) ==
    /\ pc[t] = "respond"
    /\ Respond(t, "ok")
    /\ UNCHANGED <<lock, is_running, ver, cur, fs, before, clock, arrivals>>

\* finally: with _lock: (entry)
FinallyLock(t) ==
    /\ pc[t] = "finally"
    /\ LockFree(lock)
    /\ lock' = t
    /\ pc' = [pc EXCEPT ![t] = "release"]
    /\ UNCHANGED <<is_running, status, ver, cur, fs, before, clock, arrivals>>

\* _is_running = False (and the with block ends); the response is sent
Release(t) ==
    /\ pc[t] = "release"
    /\ is_running' = FALSE
    /\ lock' = 0
    /\ pc' = [pc EXCEPT ![t] = "done"]
    /\ UNCHANGED <<status, ver, cur, fs, before, clock, arrivals>>

ShellNext ==
    \E t \in Threads :
        \/ Arrive(t)
        \/ EnterLock(t)
        \/ Busy(t)
        \/ CheckClear(t)
        \/ SetRunning(t)
        \/ ScrapeOk(t)
        \/ ScrapeRaise(t)
        \/ OpenTmp(t)
        \/ DumpChunk(t)
        \/ ReplaceDoc(t)
        \/ IOFail(t)
        \/ RespondOk(t)
        \/ FinallyLock(t)
        \/ Release(t)

(***************************************************************************)
(* backend/scraper/race.py: GUARD and FETCH stages of scrape_race_data     *)
(***************************************************************************)
BLOCKED_WEEKDAYS == {1, 2, 3}

BLOCK_START_HOUR == 16

BLOCK_END_HOUR == 17

DayNames == <<"Monday", "Tuesday", "Wednesday", "Thursday", "Friday",
              "Saturday", "Sunday">>

\* datetime.weekday(): Monday is 0 and Sunday is 6
Weekday(day) == (CHOOSE i \in 1..Len(DayNames) : DayNames[i] = day) - 1

is_scrape_window_ok_inclusive(day, hour) ==
    ~(Weekday(day) \in BLOCKED_WEEKDAYS
        /\ BLOCK_START_HOUR <= hour /\ hour <= BLOCK_END_HOUR)

is_scrape_window_ok(day, hour) ==
    ~(Weekday(day) \in BLOCKED_WEEKDAYS
        /\ BLOCK_START_HOUR <= hour /\ hour < BLOCK_END_HOUR)

\* the call has not started: the state of these variables in the
\* specifications that are about something else
EntryIdle ==
    /\ now_day = "Monday"
    /\ now_hour = 0
    /\ allow_partial = FALSE
    /\ all_venues = FALSE
    /\ source_url = ""
    /\ use_playwright = FALSE
    /\ venue_keyword = ""
    /\ html_exists = FALSE
    /\ stage = "GUARD"
    /\ reason = ""
    /\ io = <<>>

EntryInit ==
    /\ now_day \in {DayNames[i] : i \in 1..Len(DayNames)}
    /\ now_hour \in 0..23
    /\ allow_partial \in BOOLEAN
    /\ all_venues \in BOOLEAN
    /\ source_url \in {"", "https://www.jra.go.jp/x"}
    /\ use_playwright \in BOOLEAN
    /\ venue_keyword \in {"", "Nakayama"}
    /\ html_exists \in BOOLEAN
    /\ stage = "GUARD"
    /\ reason = ""
    /\ io = <<>>

entryArgs == <<now_day, now_hour, allow_partial, all_venues, source_url,
               use_playwright, venue_keyword, html_exists>>

\* raise AbortScrapeError(why)
Abort(why) ==
    /\ stage' = "ABORTED"
    /\ reason' = why

\* a fetch or read is issued; it returns markup or raises the abort condition
Perform(what) ==
    /\ io' = Append(io, what)
    /\ \/ stage' = "PARSE" /\ reason' = reason
       \/ Abort("fetch failed")

\* if not is_scrape_window_ok() and not allow_partial: raise
GuardStage ==
    /\ stage = "GUARD"
    /\ IF ~is_scrape_window_ok(now_day, now_hour) /\ ~allow_partial
         THEN Abort("window")
         ELSE stage' = "FETCH" /\ reason' = reason
    /\ UNCHANGED <<entryArgs, io>>

\* if all_venues: fetch_all_syutsuba_with_playwright(headless=True)
FetchAllVenues ==
    /\ stage = "FETCH"
    /\ all_venues
    /\ Perform("browser all venues")
    /\ UNCHANGED entryArgs

\* elif-chain, first branch: fetch_html_from_url(source_url)
FetchUrl ==
    /\ stage = "FETCH"
    /\ ~all_venues
    /\ source_url # ""
    /\ Perform("url")
    /\ UNCHANGED entryArgs

\* the same branch without the venue_keyword test
FetchBrowser_unchecked ==
    /\ stage = "FETCH"
    /\ ~all_venues
    /\ source_url = ""
    /\ use_playwright
    /\ Perform("browser one venue")
    /\ UNCHANGED entryArgs

\* second branch: fetch_syutsuba_with_playwright, which needs venue_keyword
FetchBrowser ==
    /\ stage = "FETCH"
    /\ ~all_venues
    /\ source_url = ""
    /\ use_playwright
    /\ IF venue_keyword = ""
         THEN Abort("venue_keyword is required") /\ io' = io
         ELSE Perform("browser one venue")
    /\ UNCHANGED entryArgs

\* last branch: read_html_file, unless the file is missing
FetchFile ==
    /\ stage = "FETCH"
    /\ ~all_venues
    /\ source_url = ""
    /\ ~use_playwright
    /\ IF ~html_exists
         THEN Abort("HTML file not found") /\ io' = io
         ELSE io' = Append(io, "file") /\ stage' = "PARSE" /\ reason' = reason
    /\ UNCHANGED entryArgs

EntryNext ==
    \/ GuardStage
    \/ FetchAllVenues
    \/ FetchUrl
    \/ FetchBrowser
    \/ FetchFile

(***************************************************************************)
(* backend/scraper/race.py: the date line of a racecard page               *)
(***************************************************************************)
\* A text is a sequence of tokens: a run of digits, a venue name, or one of
\* the characters the code looks for, written by its reading:
\*   NEN (year), GETSU (month, and Monday), NICHI (day, and Sunday),
\*   KA (Tuesday), SUI (Wednesday), MOKU (Thursday), KIN (Friday),
\*   DO (Saturday), KAI (meeting counter).  No venue name of the site contains
\*   one of these characters.
WeekdayChars == {"DO", "NICHI", "GETSU", "KA", "SUI", "MOKU", "KIN"}

VenueNames == {"Nakayama", "Hanshin", "Kyoto"}

DayDigits == {"6", "7", "8"}

\* year, month, day of month, the weekday character in brackets (wd, or
\* nothing when wd is ""), then the meeting text (nothing when venue is "")
DateLine(wd, dom, venue) ==
    <<"2024", "NEN", "1", "GETSU", dom, "NICHI">>
      \o (IF wd = "" THEN <<>> ELSE <<"(", wd, ")">>)
      \o (IF venue = "" THEN <<>> ELSE <<"1", "KAI", venue, "1", "NICHI">>)

DateLines ==
    {DateLine(wd, dom, v) :
        wd \in WeekdayChars \cup {""}, dom \in DayDigits, v \in VenueNames \cup {""}}

\* c in text
Contains(text, c) == \E i \in 1..Len(text) : text[i] = c

weekday_key(text) ==
    IF Contains(text, "DO") THEN "saturday"
    ELSE IF Contains(text, "NICHI") THEN "sunday"
    ELSE IF Contains(text, "GETSU") THEN "monday"
    ELSE IF Contains(text, "KA") THEN "tuesday"
    ELSE IF Contains(text, "SUI") THEN "wednesday"
    ELSE IF Contains(text, "MOKU") THEN "thursday"
    ELSE IF Contains(text, "KIN") THEN "friday"
    ELSE "unknown"

IsDigits(tok) == tok \in {"1", "2024"} \cup DayDigits

\* re.search(KAI (.+?) (\d+) NICHI): the text between the meeting counter and
\* the day count
extract_venue_from_date(text) ==
    IF \E i \in 1..Len(text) :
          text[i] = "KAI" /\ i + 3 <= Len(text)
            /\ IsDigits(text[i + 2]) /\ text[i + 3] = "NICHI"
      THEN text[(CHOOSE i \in 1..Len(text) :
                    text[i] = "KAI" /\ i + 3 <= Len(text)
                      /\ IsDigits(text[i + 2]) /\ text[i + 3] = "NICHI") + 1]
      ELSE ""

DateIdle ==
    /\ date_text = <<>>
    /\ day_key = ""
    /\ parsed_venue = ""

DateInit ==
    /\ date_text \in DateLines
    /\ day_key = ""
    /\ parsed_venue = ""

\* parse_syutsuba_html: venue = ..., day_key = weekday_key(date_text)
ReadDateLine ==
    /\ day_key = ""
    /\ day_key' = weekday_key(date_text)
    /\ parsed_venue' = extract_venue_from_date(date_text)
    /\ UNCHANGED date_text

\* the same page is parsed again (parsing keeps no state between calls)
ParseAgain ==
    /\ day_key # ""
    /\ day_key' = ""
    /\ parsed_venue' = ""
    /\ UNCHANGED date_text

DateNext ==
    \/ ReadDateLine
    \/ ParseAgain

(***************************************************************************)
(* backend/scraper/race.py: fetch_all_syutsuba_with_playwright             *)
(***************************************************************************)
\* link texts that is_target_link accepts
VenueLabels == {"1kai Nakayama 1nichi", "1kai Hanshin 1nichi"}

\* what a venue's racecard page carries: the weekday character and the venue
\* of its date line, and the number of race items in its race list
Markups == [day : {"Sat", "Sun"}, venue : {"", "Nakayama"}, races : 0..1]

LabelLists == UNION {[1..n -> VenueLabels] : n \in 0..MaxVenues}

VenuesIdle ==
    /\ v_pc = "import"
    /\ labels = <<>>
    /\ vi = 1
    /\ results = <<>>
    /\ venues_html = <<>>
    /\ v_reason = ""

\* except Exception as e: raise AbortScrapeError(...): the call ends, its
\* local results are dropped and scrape_race_data, which has no handler
\* around the call, ends with it
RaiseAll(why) ==
    /\ v_pc' = "raised"
    /\ v_reason' = why
    /\ UNCHANGED <<labels, vi, results, venues_html>>

\* from playwright.sync_api import sync_playwright
ImportPlaywright ==
    /\ v_pc = "import"
    /\ v_pc' = "index"
    /\ UNCHANGED <<labels, vi, results, venues_html, v_reason>>

ImportFails ==
    /\ v_pc = "import"
    /\ RaiseAll("Playwright import failed")

\* open the index page and collect the labels of the target links
CollectLabels ==
    /\ v_pc = "index"
    /\ \E ls \in LabelLists :
          /\ labels' = ls
          /\ IF ls = <<>>
               THEN v_pc' = "raised" /\ v_reason' = "No venue links found"
               ELSE v_pc' = "visit" /\ v_reason' = v_reason
    /\ UNCHANGED <<vi, results, venues_html>>

\* goto, click or wait on the index page times out
IndexFails ==
    /\ v_pc = "index"
    /\ RaiseAll("Playwright navigation failed (all venues)")

\* loop body: the venue's page is reached and its markup appended
VisitVenue ==
    /\ v_pc = "visit"
    /\ vi <= Len(labels)
    /\ \E html \in Markups : results' = Append(results, <<labels[vi], html>>)
    /\ vi' = vi + 1
    /\ UNCHANGED <<v_pc, labels, venues_html, v_reason>>

\* loop body: goto, a click or a wait of this venue's visit times out
VisitFails ==
    /\ v_pc = "visit"
    /\ vi <= Len(labels)
    /\ RaiseAll("Playwright navigation failed (all venues)")

\* browser.close(); return results
ReturnResults ==
    /\ v_pc = "visit"
    /\ vi > Len(labels)
    /\ venues_html' = results
    /\ v_pc' = "returned"
    /\ UNCHANGED <<labels, vi, results, v_reason>>

VenuesNext ==
    \/ ImportPlaywright
    \/ ImportFails
    \/ CollectLabels
    \/ IndexFails
    \/ VisitVenue
    \/ VisitFails
    \/ ReturnResults

(***************************************************************************)
(* backend/scraper/race.py: ENRICH_HORSE and ENRICH_JOCKEY                 *)
(***************************************************************************)
\* a key the dict does not have
Absent == "(absent)"

\* Python truth value of dict.get(key): None, "" and {} are false
Falsy(v) == v \in {Absent, "", "{}"}

JockeyNames == {"J", "K"}

\* what parse_race_li and Horse.to_dict put in a horse dict, for the keys the
\* enrichment reads or writes: pedigree keys start empty, pastRaces is []
ParsedHorses ==
    {[detail_url |-> u, jockey |-> j[1], jockey_url |-> j[2], trainer |-> t,
      serei |-> "3yo colt", weight |-> "55.0", father |-> "", mother |-> "",
      birthday |-> "", color |-> "", pastRaces |-> <<>>,
      detail_error |-> Absent, height |-> Absent, first_license |-> Absent,
      stats_current |-> Absent, stats_total |-> Absent] :
        u \in {"", "/horse"},
        j \in {<<"", "">>, <<"J", "/jockey/J">>, <<"J", "">>, <<"K", "/jockey/K">>},
        t \in {"", "Trainer A"}}

\* results of parse_horse_detail: a page with every field, a page with none
\* (no pedigree, no history: the browser fallback applies), and a page with
\* some
NoHorseDetail ==
    [father |-> "", mother |-> "", trainer |-> "", birthday |-> "",
     color |-> "", serei |-> "", pastRaces |-> <<>>]

HorseDetails ==
    { [father |-> "Sire X", mother |-> "Dam Y", trainer |-> "Trainer B",
       birthday |-> "2021-03-01", color |-> "bay", serei |-> "4yo colt",
       pastRaces |-> <<"race 1">>],
      NoHorseDetail,
      [father |-> "", mother |-> "Dam Y", trainer |-> "", birthday |-> "2021-03-01",
       color |-> "", serei |-> "", pastRaces |-> <<>>] }

\* results of parse_jockey_detail
JockeyDetails ==
    { [birthday |-> "1990-05-05", height |-> "160", weight |-> "50",
       first_license |-> "2010", stats_current |-> "table", stats_total |-> "table"],
      [birthday |-> "", height |-> "", weight |-> "", first_license |-> "",
       stats_current |-> "{}", stats_total |-> "{}"] }

NotSeen == [birthday |-> Absent, height |-> Absent, weight |-> Absent,
            first_license |-> Absent, stats_current |-> Absent,
            stats_total |-> Absent]

HorseKeys == {"father", "mother", "trainer", "birthday", "color", "serei"}

\* if detail.get(key): h[key] = detail[key]
Overwrite_always(old, new) == new

Overwrite(old, new) == IF Falsy(new) THEN old ELSE new

\* lines 687-691 applied to one horse dict
ApplyHorseDetail(h, d) ==
    [h EXCEPT !.father = Overwrite(h.father, d.father),
              !.mother = Overwrite(h.mother, d.mother),
              !.trainer = Overwrite(h.trainer, d.trainer),
              !.birthday = Overwrite(h.birthday, d.birthday),
              !.color = Overwrite(h.color, d.color),
              !.serei = Overwrite(h.serei, d.serei),
              !.pastRaces = IF d.pastRaces # <<>> THEN d.pastRaces ELSE h.pastRaces]

\* outcomes of the try block of one horse: the static fetch and parse, then
\* the browser fetch and parse when use_playwright is set and the static
\* result has no father and no pastRaces
HorseTry(pw) ==
    LET failed(msg) == [ok |-> FALSE, err |-> msg, detail |-> NoHorseDetail]
        good(d) == [ok |-> TRUE, err |-> "", detail |-> d]
        retry(d) == pw /\ Falsy(d.father) /\ d.pastRaces = <<>>
    IN {failed("Failed to fetch")}
         \cup {good(d) : d \in {x \in HorseDetails : ~retry(x)}}
         \cup (IF \E d \in HorseDetails : retry(d)
                THEN {failed("Playwright fetch failed")}
                       \cup {good(d) : d \in HorseDetails}
                ELSE {})

\* outcomes of the try block of one jockey, likewise
JockeyTry(pw) ==
    LET failed == [ok |-> FALSE, detail |-> NotSeen]
        good(d) == [ok |-> TRUE, detail |-> d]
        retry(d) == pw /\ Falsy(d.birthday) /\ Falsy(d.stats_current)
    IN {failed}
         \cup {good(d) : d \in {x \in JockeyDetails : ~retry(x)}}
         \cup (IF \E d \in JockeyDetails : retry(d)
                THEN {good(d) : d \in JockeyDetails}
                ELSE {})

\* lines 701-706
ClearJockeyFields(h) ==
    [h EXCEPT !.birthday = "", !.height = "", !.weight = "",
              !.first_license = "", !.stats_current = "{}", !.stats_total = "{}"]

\* h.update(det)
UpdateWith(h, det) ==
    [h EXCEPT !.birthday = det.birthday, !.height = det.height,
              !.weight = det.weight, !.first_license = det.first_license,
              !.stats_current = det.stats_current, !.stats_total = det.stats_total]

NothingApplied == [ok |-> FALSE, err |-> "", detail |-> NoHorseDetail]

EnrichIdle ==
    /\ e_pc = "enrich_horse"
    /\ fetch_horse_detail = FALSE
    /\ fetch_jockey_detail = FALSE
    /\ horses = <<>>
    /\ hi = 1
    /\ jockey_seen = [n \in JockeyNames |-> NotSeen]
    /\ applied = NothingApplied
    /\ h_outcome = <<>>
    /\ j_fetches = [n \in JockeyNames |-> 0]
    /\ j_failed = {}
    /\ day_horses = <<>>

\* the call has fetched and parsed a racecard and reaches line 673
EnrichInit ==
    /\ e_pc = "enrich_horse"
    /\ fetch_horse_detail \in BOOLEAN
    /\ fetch_jockey_detail \in BOOLEAN
    /\ horses \in UNION {[1..n -> ParsedHorses] : n \in 1..MaxHorses}
    /\ hi = 1
    /\ jockey_seen = [n \in JockeyNames |-> NotSeen]
    /\ applied = NothingApplied
    /\ h_outcome = [i \in 1..Len(horses) |-> "not visited"]
    /\ j_fetches = [n \in JockeyNames |-> 0]
    /\ j_failed = {}
    /\ day_horses = horses

enrichArgs == <<fetch_horse_detail, fetch_jockey_detail>>

\* if not href: continue
HorseSkipped ==
    /\ e_pc = "enrich_horse"
    /\ fetch_horse_detail
    /\ hi <= Len(horses)
    /\ Falsy(horses[hi].detail_url)
    /\ h_outcome' = [h_outcome EXCEPT ![hi] = "skipped"]
    /\ hi' = hi + 1
    /\ UNCHANGED <<e_pc, enrichArgs, day_horses, horses, jockey_seen, applied, j_fetches, j_failed>>

\* the try block ran to its end: the detail is applied to the horse
HorseEnriched ==
    /\ e_pc = "enrich_horse"
    /\ fetch_horse_detail
    /\ hi <= Len(horses)
    /\ ~Falsy(horses[hi].detail_url)
    /\ \E r \in HorseTry(use_playwright) :
          /\ r.ok
          /\ applied' = r
          /\ horses' = [horses EXCEPT ![hi] = ApplyHorseDetail(horses[hi], r.detail)]
    /\ h_outcome' = [h_outcome EXCEPT ![hi] = "applied"]
    /\ hi' = hi + 1
    /\ UNCHANGED <<e_pc, enrichArgs, day_horses, jockey_seen, j_fetches, j_failed>>

\* except Exception as e: h.setdefault("detail_error", str(e))
HorseFailed ==
    /\ e_pc = "enrich_horse"
    /\ fetch_horse_detail
    /\ hi <= Len(horses)
    /\ ~Falsy(horses[hi].detail_url)
    /\ \E r \in HorseTry(use_playwright) :
          /\ ~r.ok
          /\ applied' = r
          /\ horses' = [horses EXCEPT ![hi].detail_error =
                           IF @ = Absent THEN r.err ELSE @]
    /\ h_outcome' = [h_outcome EXCEPT ![hi] = "failed"]
    /\ hi' = hi + 1
    /\ UNCHANGED <<e_pc, enrichArgs, day_horses, jockey_seen, j_fetches, j_failed>>

\* the horse loop is over, or fetch_horse_detail is not set
HorseStageEnds ==
    /\ e_pc = "enrich_horse"
    /\ ~fetch_horse_detail \/ hi > Len(horses)
    /\ e_pc' = IF fetch_jockey_detail THEN "enrich_jockey" ELSE "done"
    /\ hi' = 1
    /\ UNCHANGED <<enrichArgs, day_horses, horses, jockey_seen, applied, h_outcome, j_fetches, j_failed>>

\* build_horse_json: the horse-roster entries, from the flat view
build_horse_json(hs) ==
    [i \in 1..Len(hs) |->
        [serei |-> hs[i].serei, trainer |-> hs[i].trainer,
         father |-> hs[i].father, mother |-> hs[i].mother,
         birthday |-> hs[i].birthday, color |-> hs[i].color,
         pastRaces |-> hs[i].pastRaces]]

\* the horse's jockey is looked up: not name, not url or name in jockey_seen
NeedsJockeyFetch(h) ==
    /\ ~Falsy(h.jockey)
    /\ ~Falsy(h.jockey_url)
    /\ jockey_seen[h.jockey] = NotSeen

\* first loop: the fields are cleared and the horse needs no fetch
JockeySkipped ==
    /\ e_pc = "enrich_jockey"
    /\ hi <= Len(horses)
    /\ ~NeedsJockeyFetch(horses[hi])
    /\ horses' = [horses EXCEPT ![hi] = ClearJockeyFields(@)]
    /\ hi' = hi + 1
    /\ UNCHANGED <<e_pc, enrichArgs, day_horses, jockey_seen, applied, h_outcome, j_fetches, j_failed>>

\* first loop: the fields are cleared, the detail is fetched and cached
JockeyFetched ==
    /\ e_pc = "enrich_jockey"
    /\ hi <= Len(horses)
    /\ NeedsJockeyFetch(horses[hi])
    /\ \E r \in JockeyTry(use_playwright) :
          /\ r.ok
          /\ jockey_seen' = [jockey_seen EXCEPT ![horses[hi].jockey] = r.detail]
    /\ j_fetches' = [j_fetches EXCEPT ![horses[hi].jockey] = @ + 1]
    /\ horses' = [horses EXCEPT ![hi] = ClearJockeyFields(@)]
    /\ hi' = hi + 1
    /\ UNCHANGED <<e_pc, enrichArgs, day_horses, applied, h_outcome, j_failed>>

\* first loop: the fields are cleared, the try block raises: continue
JockeyFailed ==
    /\ e_pc = "enrich_jockey"
    /\ hi <= Len(horses)
    /\ NeedsJockeyFetch(horses[hi])
    /\ \E r \in JockeyTry(use_playwright) : ~r.ok
    /\ j_fetches' = [j_fetches EXCEPT ![horses[hi].jockey] = @ + 1]
    /\ j_failed' = j_failed \cup {horses[hi].jockey}
    /\ horses' = [horses EXCEPT ![hi] = ClearJockeyFields(@)]
    /\ hi' = hi + 1
    /\ UNCHANGED <<e_pc, enrichArgs, day_horses, jockey_seen, applied, h_outcome>>

\* second loop: every horse whose jockey is in jockey_seen gets the detail
AttachJockeys ==
    /\ e_pc = "enrich_jockey"
    /\ hi > Len(horses)
    /\ horses' = [i \in 1..Len(horses) |->
                     IF ~Falsy(horses[i].jockey) /\ jockey_seen[horses[i].jockey] # NotSeen
                       THEN UpdateWith(horses[i], jockey_seen[horses[i].jockey])
                       ELSE horses[i]]
    /\ e_pc' = "done"
    /\ UNCHANGED <<enrichArgs, day_horses, hi, jockey_seen, applied, h_outcome, j_fetches, j_failed>>

EnrichNext ==
    \/ HorseSkipped
    \/ HorseEnriched
    \/ HorseFailed
    \/ HorseStageEnds
    \/ JockeySkipped
    \/ JockeyFetched
    \/ JockeyFailed
    \/ AttachJockeys

(***************************************************************************)
(* backend/scraper/race.py: PARSE and MERGE of the all-venues branch       *)
(***************************************************************************)
\* dict.get(key)
Get(d, key) == IF key \in DOMAIN d THEN d[key] ELSE Absent

\* the date line of a fetched page
DateLineOf(m) ==
    DateLine(IF m.day = "Sat" THEN "DO" ELSE "NICHI", "6", m.venue)

\* the Race entities of a page: race_id is venue-NN, or unknown-NN
RacesOf(m) ==
    LET v == extract_venue_from_date(DateLineOf(m))
    IN [n \in 1..m.races |-> [venue |-> IF v = "" THEN "unknown" ELSE v, number |-> n]]

\* parse_syutsuba_html for a page that has race items: the day key, the
\* Day block of days and the one Venue block of the flat view
parse_syutsuba_html(m) ==
    LET date_line == DateLineOf(m)
        venue == extract_venue_from_date(date_line)
        venue_label == date_line \o <<"10:00">>
        races == RacesOf(m)
    IN [date |-> date_line,
        day_key |-> weekday_key(date_line),
        day |-> [date |-> date_line,
                 venues |-> << [venue |-> venue, venue_label |-> venue_label,
                                races |-> [n \in 1..Len(races) |->
                                    [race_id |-> races[n], race_number |-> n]]] >>],
        venues |-> << [name |-> venue, session |-> venue_label,
                       races |-> [n \in 1..Len(races) |->
                                    [id |-> races[n], raceNum |-> n]]] >>]

\* lines 640-641 on data["venues"][0]
LabelVenue(block, venue_label) ==
    [block EXCEPT !.session = venue_label,
                  !.name = IF Falsy(Get(block, "venue")) THEN venue_label
                           ELSE Get(block, "venue")]

\* data after lines 638-641
ParsedPair(pair) ==
    LET data == parse_syutsuba_html(pair[2])
    IN [data EXCEPT !.venues = <<LabelVenue(data.venues[1], pair[1])>>]

HasKey(days, key) == \E i \in 1..Len(days) : days[i].key = key

RefOf(days, key) == days[CHOOSE i \in 1..Len(days) : days[i].key = key].ref

\* lines 645-649 with the key overwritten when it is already there
MergeDays_replace(days, hp, data) ==
    [days |-> IF HasKey(days, data.day_key) THEN days
              ELSE Append(days, [key |-> data.day_key, ref |-> Len(hp) + 1]),
     heap |-> IF HasKey(days, data.day_key)
                THEN [hp EXCEPT ![RefOf(days, data.day_key)] = data.day]
                ELSE Append(hp, data.day)]

\* lines 645-649: the Day block is added under its key if the key is new,
\* else its venues are appended to the block the key is bound to
MergeDays(days, hp, data) ==
    IF HasKey(days, data.day_key)
      THEN [days |-> days,
            heap |-> [hp EXCEPT ![RefOf(days, data.day_key)].venues =
                                    @ \o data.day.venues]]
      ELSE [days |-> Append(days, [key |-> data.day_key, ref |-> Len(hp) + 1]),
            heap |-> Append(hp, data.day)]

MergeVenues_front(mv, dv) == dv \o mv

\* merged["venues"].extend(data["venues"])
MergeVenues(mv, dv) == mv \o dv

\* lines 653-654 and 670-671 binding the key to a copy of the block
AliasDay_copy(days, hp, target) ==
    IF target # "" /\ ~HasKey(days, target)
      THEN [days |-> Append(days, [key |-> target, ref |-> Len(hp) + 1]),
            heap |-> Append(hp, hp[days[1].ref]), added |-> TRUE]
      ELSE [days |-> days, heap |-> hp, added |-> FALSE]

\* lines 653-654 and 670-671: days[target_day] = days[next(iter(days))]
AliasDay(days, hp, target) ==
    IF target # "" /\ ~HasKey(days, target)
      THEN [days |-> Append(days, [key |-> target, ref |-> days[1].ref]),
            heap |-> hp, added |-> TRUE]
      ELSE [days |-> days, heap |-> hp, added |-> FALSE]

TargetDays == {"", "saturday", "sunday", "monday"}

NoAggregate == [set |-> FALSE, date |-> <<>>, days |-> <<>>, venues |-> <<>>]

MergeIdle ==
    /\ m_pc = "fetch"
    /\ mi = 1
    /\ merged = NoAggregate
    /\ heap = <<>>
    /\ target_day = ""
    /\ aliased = FALSE

\* line 635: the call returned the pairs, the loop starts
StartMerge ==
    /\ m_pc = "fetch"
    /\ v_pc = "returned"
    /\ m_pc' = "merge"
    /\ UNCHANGED <<mi, merged, heap, target_day, aliased, venueVars>>

\* loop body for a page without race items: parse_syutsuba_html raises
ParseAborts ==
    /\ m_pc = "merge"
    /\ mi <= Len(venues_html)
    /\ venues_html[mi][2].races = 0
    /\ m_pc' = "aborted"
    /\ UNCHANGED <<mi, merged, heap, target_day, aliased, venueVars>>

\* loop body: the first parsed result seeds the aggregate
SeedAggregate ==
    /\ m_pc = "merge"
    /\ mi <= Len(venues_html)
    /\ venues_html[mi][2].races > 0
    /\ ~merged.set
    /\ LET data == ParsedPair(venues_html[mi])
       IN /\ merged' = [set |-> TRUE, date |-> data.date,
                        days |-> <<[key |-> data.day_key, ref |-> Len(heap) + 1]>>,
                        venues |-> data.venues]
          /\ heap' = Append(heap, data.day)
    /\ mi' = mi + 1
    /\ UNCHANGED <<m_pc, target_day, aliased, venueVars>>

\* loop body: a later parsed result is merged into the aggregate
MergeResult ==
    /\ m_pc = "merge"
    /\ mi <= Len(venues_html)
    /\ venues_html[mi][2].races > 0
    /\ merged.set
    /\ LET data == ParsedPair(venues_html[mi])
           md == MergeDays(merged.days, heap, data)
       IN /\ merged' = [merged EXCEPT !.days = md.days,
                                      !.venues = MergeVenues(@, data.venues)]
          /\ heap' = md.heap
    /\ mi' = mi + 1
    /\ UNCHANGED <<m_pc, target_day, aliased, venueVars>>

\* lines 651-655 and 670-671: after the loop the requested day is aliased
AliasTarget ==
    /\ m_pc = "merge"
    /\ mi > Len(venues_html)
    /\ \E t \in TargetDays :
          /\ target_day' = t
          /\ IF ~merged.set
               THEN /\ m_pc' = "aborted"
                    /\ UNCHANGED <<merged, heap, aliased>>
               ELSE LET a == AliasDay(merged.days, heap, t)
                        b == AliasDay(a.days, a.heap, t)
                    IN /\ merged' = [merged EXCEPT !.days = b.days]
                       /\ heap' = b.heap
                       /\ aliased' = (a.added \/ b.added)
                       /\ m_pc' = "done"
    /\ UNCHANGED <<mi, venueVars>>

MergeNext ==
    \/ StartMerge
    \/ ParseAborts
    \/ SeedAggregate
    \/ MergeResult
    \/ AliasTarget

(***************************************************************************)
(* backend/scraper/race.py: sanitize_race_data                             *)
(***************************************************************************)
None == "None"

\* horse dicts as Horse.to_dict and the enrichment stages leave them
FreshHorse ==
    [name |-> "A", jockey |-> "J", odds |-> "3.5", detail_url |-> "u1",
     jockey_url |-> "j1", pastRaces |-> <<>>]

DetailedHorse ==
    [name |-> "B", jockey |-> "K", odds |-> "", detail_url |-> "u2",
     jockey_url |-> "", pastRaces |-> <<[race |-> "r1", odds |-> "2.0"]>>,
     father |-> "F"]

FailedHorse ==
    [name |-> "C", jockey |-> "J", odds |-> "12.1", detail_url |-> "u3",
     jockey_url |-> "j1", pastRaces |-> <<>>, detail_error |-> "timeout",
     first_license |-> "2001"]

HorseDicts == {FreshHorse, DetailedHorse, FailedHorse}

HorseLists == UNION {[1..n -> HorseDicts] : n \in 0..MaxHorses}

\* the aggregate scrape_race_data returns, with generated_at set by the
\* caller; with_alias adds a second day key bound to the first day's block
Aggregate(flat_horses, block_horses, with_alias) ==
    LET block == [date |-> "d",
                  venues |-> << [venue |-> "Nakayama", venue_label |-> "l",
                                 races |-> << [race_id |-> "Nakayama-01",
                                               horses |-> block_horses] >>] >>]
    IN [generated_at |-> "t",
        date |-> "2024-01-06",
        days |-> [k \in (IF with_alias THEN {"saturday", "monday"}
                         ELSE {"saturday"}) |-> block],
        venues |-> << [name |-> "Nakayama", session |-> "l",
                       races |-> << [id |-> "Nakayama-01",
                                     horses |-> flat_horses] >>] >>]

Aggregates ==
    {Aggregate(f, b, a) : f \in HorseLists, b \in HorseLists, a \in BOOLEAN}

\* json.loads(json.dumps(data)) with the result bound to the argument itself
JsonCopy_shared(m, ref) == [mem |-> m, ref |-> ref]

\* json.loads(json.dumps(data)): a document of dicts with string keys, lists
\* and strings is rebuilt with equal content in objects of its own
JsonCopy(m, ref) == [mem |-> [m EXCEPT ![2] = m[ref]], ref |-> 2]

PopKeys == <<"odds", "detail_url", "jockey_url">>

\* h.pop(key, None)
Pop(h, key) == [k \in DOMAIN h \ {key} |-> h[k]]

RECURSIVE PopAll(_, _)
PopAll(h, n) == IF n = 0 THEN h ELSE Pop(PopAll(h, n - 1), PopKeys[n])

\* clean_venues
clean_venues(venues) ==
    [i \in 1..Len(venues) |->
        [venues[i] EXCEPT !.races =
            [j \in 1..Len(@) |->
                [@[j] EXCEPT !.horses =
                    [n \in 1..Len(@) |-> PopAll(@[n], Len(PopKeys))]]]]]

CleanFlat(doc) == [doc EXCEPT !.venues = clean_venues(@)]

CleanDays(doc) ==
    [doc EXCEPT !.days = [k \in DOMAIN @ |-> [@[k] EXCEPT !.venues = clean_venues(@)]]]

\* sanitize_race_data as a function of the document passed in
sanitize_race_data(doc) == CleanDays(CleanFlat(doc))

SanIdle ==
    /\ s_pc = "idle"
    /\ mem = [i \in 1..2 |-> None]
    /\ caller_data = 1
    /\ new_data = 0
    /\ given = None
    /\ returned = None
    /\ again = None

\* app.py line 82: the call sanitize_race_data(data)
SanInit ==
    /\ s_pc = "copy"
    /\ given \in Aggregates
    /\ mem = [i \in 1..2 |-> IF i = 1 THEN given ELSE None]
    /\ caller_data = 1
    /\ new_data = 0
    /\ returned = None
    /\ again = None

\* line 752
CopyDocument ==
    /\ s_pc = "copy"
    /\ LET c == JsonCopy(mem, caller_data)
       IN /\ mem' = c.mem
          /\ new_data' = c.ref
    /\ s_pc' = "flat"
    /\ UNCHANGED <<caller_data, given, returned, again>>

\* line 765
CleanFlatView ==
    /\ s_pc = "flat"
    /\ mem' = [mem EXCEPT ![new_data] = CleanFlat(@)]
    /\ s_pc' = "days"
    /\ UNCHANGED <<caller_data, new_data, given, returned, again>>

\* lines 766-767
CleanDayViews ==
    /\ s_pc = "days"
    /\ mem' = [mem EXCEPT ![new_data] = CleanDays(@)]
    /\ s_pc' = "return"
    /\ UNCHANGED <<caller_data, new_data, given, returned, again>>

\* line 768
ReturnDocument ==
    /\ s_pc = "return"
    /\ returned' = mem[new_data]
    /\ s_pc' = "returned"
    /\ UNCHANGED <<mem, caller_data, new_data, given, again>>

\* the result is passed to sanitize_race_data once more
SanitizeAgain ==
    /\ s_pc = "returned"
    /\ again' = sanitize_race_data(returned)
    /\ s_pc' = "again"
    /\ UNCHANGED <<mem, caller_data, new_data, given, returned>>

SanNext ==
    \/ CopyDocument
    \/ CleanFlatView
    \/ CleanDayViews
    \/ ReturnDocument
    \/ SanitizeAgain

(***************************************************************************)
(* Specifications                                                          *)
(***************************************************************************)
Init == ShellInit /\ EntryIdle /\ VenuesIdle /\ EnrichIdle /\ DateIdle /\ MergeIdle /\ SanIdle

Next == ShellNext /\ UNCHANGED <<entryVars, venueVars, enrichVars, dateVars, mergeVars, sanVars>>

Spec == Init /\ [][Next]_vars

SpecEntryInit == EntryInit /\ ShellInit /\ VenuesIdle /\ EnrichIdle /\ DateIdle /\ MergeIdle /\ SanIdle

SpecEntryNext == EntryNext /\ UNCHANGED <<shellVars, venueVars, enrichVars, dateVars, mergeVars, sanVars>>

SpecEntry == SpecEntryInit /\ [][SpecEntryNext]_vars

SpecVenuesInit == VenuesIdle /\ MergeIdle /\ ShellInit /\ EntryIdle /\ EnrichIdle /\ DateIdle /\ SanIdle

SpecVenuesNext ==
    /\ \/ VenuesNext /\ UNCHANGED mergeVars
       \/ MergeNext
    /\ UNCHANGED <<shellVars, entryVars, enrichVars, dateVars, sanVars>>

SpecVenues == SpecVenuesInit /\ [][SpecVenuesNext]_vars

\* the enrichment stages read one argument of the entry: use_playwright
EnrichEntry ==
    /\ now_day = "Monday"
    /\ now_hour = 0
    /\ allow_partial = FALSE
    /\ all_venues = FALSE
    /\ source_url = ""
    /\ use_playwright \in BOOLEAN
    /\ venue_keyword = "Nakayama"
    /\ html_exists = TRUE
    /\ stage = "PARSE"
    /\ reason = ""
    /\ io = IF use_playwright THEN <<"browser one venue">> ELSE <<"file">>

SpecEnrichInit == EnrichInit /\ EnrichEntry /\ ShellInit /\ VenuesIdle /\ DateIdle /\ MergeIdle /\ SanIdle

SpecEnrichNext == EnrichNext /\ UNCHANGED <<shellVars, entryVars, venueVars, dateVars, mergeVars, sanVars>>

SpecEnrich == SpecEnrichInit /\ [][SpecEnrichNext]_vars

SpecDateInit == DateInit /\ ShellInit /\ EntryIdle /\ VenuesIdle /\ EnrichIdle /\ MergeIdle /\ SanIdle

SpecDateNext == DateNext /\ UNCHANGED <<shellVars, entryVars, venueVars, enrichVars, mergeVars, sanVars>>

SpecDate == SpecDateInit /\ [][SpecDateNext]_vars

SpecSanitizeInit == SanInit /\ ShellInit /\ EntryIdle /\ VenuesIdle /\ EnrichIdle /\ DateIdle /\ MergeIdle

SpecSanitizeNext == SanNext /\ UNCHANGED <<shellVars, entryVars, venueVars, enrichVars, dateVars, mergeVars>>

SpecSanitize == SpecSanitizeInit /\ [][SpecSanitizeNext]_vars

(***************************************************************************)
(* Properties of the update endpoint                                       *)
(***************************************************************************)

\* at most one thread is between taking the guard and releasing it
GuardExclusive ==
    \A t1, t2 \in Threads : InGuard(t1) /\ InGuard(t2) => t1 = t2

\* the guard holder does not hold the mutex while it scrapes and writes
HolderLeavesMutex ==
    \A t \in Threads : InGuard(t) /\ pc[t] # "release" => lock # t

\* a step that answers busy leaves the flag as it was
BusyKeepsFlag ==
    \A t \in Threads :
        status[t] # "busy" /\ status'[t] = "busy" => is_running' = is_running

\* C1: for any interleaving of update requests at most one request at a time
\* is between setting _is_running and clearing it, so the scrapes and file
\* writes of two requests never overlap; a request that finds the guard taken
\* is answered busy without waiting for the holder (which never keeps the
\* mutex while it works) and without changing the flag.
C1_SingleScrape == [](GuardExclusive /\ HolderLeavesMutex) /\ [][BusyKeepsFlag]_vars

\* one thread is writing a document while another was answered busy
C1_Witness ==
    \E t1, t2 \in Threads :
        /\ t1 # t2
        /\ pc[t1] = "dump"
        /\ status[t2] = "busy"
        /\ pc[t2] = "done"

\* a step that answers busy happens only while another thread is in the guard
BusyOnlyWhenRunning ==
    \A t \in Threads :
        status[t] # "busy" /\ status'[t] = "busy" =>
            \E u \in Threads : u # t /\ InGuard(u)

\* C2: every request that took the guard releases it when it ends, with ok,
\* aborted or error alike: when no request is executing, _is_running is
\* false, and a request is answered busy only while another one is really
\* between taking and releasing the guard.
C2_GuardReleased ==
    []((\A t \in Threads : ~InGuard(t)) => ~is_running) /\ [][BusyOnlyWhenRunning]_vars

\* requests have ended with error and with aborted, nothing is executing and
\* the flag is clear
C2_Witness ==
    /\ \E t \in Threads : pc[t] = "done" /\ status[t] = "error"
    /\ \E t \in Threads : pc[t] = "done" /\ status[t] = "aborted"
    /\ \A t \in Threads : pc[t] \in {"idle", "done"}
    /\ ~is_running

\* C3: a request whose scrape raised the abort condition ends with status
\* aborted, and up to the moment it releases the guard the three output
\* documents are exactly as they were when it took the guard.
C3_AbortWritesNothing ==
    \A t \in Threads :
        InGuard(t) /\ status[t] = "aborted" => DocState = before[t]

\* an aborted request is about to release the guard and the race document of
\* an earlier request is still in place
C3_Witness ==
    \E t \in Threads :
        /\ pc[t] = "release"
        /\ status[t] = "aborted"
        /\ Complete(fs["RaceTest.json"])

\* C4: a request that ends with status error leaves the three output
\* documents as they were before the request.
C4_ErrorWritesNothing ==
    \A t \in Threads :
        InGuard(t) /\ status[t] = "error" => DocState = before[t]

\* every destination holds no file or a complete document
DestinationsWhole ==
    \A d \in Docs : fs[d] = NoFile \/ Complete(fs[d])

\* a destination changes only in the rename step of a write
OnlyRenameChangesDestination ==
    DocState' # DocState =>
        \E t \in Threads : pc[t] = "replace" /\ pc'[t] \in {"open", "respond"}

\* C5: at every point of a write the destination path holds the complete
\* previous content (or no file) or the complete new content; every step
\* before the rename, and an interruption at any of them, leaves the
\* destination unchanged, so a reader never sees a partly written file.
C5_AtomicWrite == []DestinationsWhole /\ [][OnlyRenameChangesDestination]_vars

\* the race document of an earlier request is in place while the temporary
\* file of a later write is half written
C5_Witness ==
    /\ Complete(fs["RaceTest.json"])
    /\ fs["RaceTest.json.tmp"].exists
    /\ fs["RaceTest.json.tmp"].len = 1
    /\ fs["RaceTest.json.tmp"].ver > fs["RaceTest.json"].ver

(***************************************************************************)
(* Properties of the GUARD stage                                           *)
(***************************************************************************)

\* the clock reads Tuesday, Wednesday or Thursday between 16:00 and 16:59
\* and the caller did not set allow_partial
InMaintenanceWindow ==
    /\ now_day \in {"Tuesday", "Wednesday", "Thursday"}
    /\ 16 <= now_hour /\ now_hour < 17
    /\ ~allow_partial

\* what holds of a call whose GUARD stage has run
GuardVerdict ==
    stage # "GUARD" =>
        /\ InMaintenanceWindow <=> (stage = "ABORTED" /\ reason = "window")
        /\ reason = "window" => io = <<>>

\* outside the window the GUARD stage hands over to FETCH
GuardLetsThrough ==
    stage = "GUARD" /\ ~InMaintenanceWindow => stage' = "FETCH" /\ io' = <<>>

\* C6: the GUARD stage aborts the call, with no fetch or file read performed,
\* exactly when the weekday is Tuesday, Wednesday or Thursday, 16 <= hour < 17
\* and allow_partial is false; in every other case the guard lets the call
\* proceed to FETCH.
C6_WindowGuard == []GuardVerdict /\ [][GuardLetsThrough]_vars

\* a call on Wednesday at 16 without allow_partial was aborted by the guard
C6_Witness ==
    /\ now_day = "Wednesday"
    /\ now_hour = 16
    /\ ~allow_partial
    /\ stage = "ABORTED"
    /\ reason = "window"

(***************************************************************************)
(* Properties of the all-venues fetch                                      *)
(***************************************************************************)

\* C10: a navigation or timeout failure while visiting one venue aborts only
\* that venue's fetch: the whole call is aborted only when the failure comes
\* before any venue's markup was obtained, and otherwise the pairs of the
\* venues that succeeded are returned to the scrape.
C10_VenueFailureIsLocal ==
    v_pc = "raised" => results = <<>>

(***************************************************************************)
(* Properties of the detail enrichment                                     *)
(***************************************************************************)

\* the step is a visit of ENRICH_HORSE to horse hi whose try block was entered
HorseVisit == e_pc = "enrich_horse" /\ hi' = hi + 1 /\ h_outcome'[hi] # "skipped"

\* value of key k in a horse dict or a detail
Field(r, k) ==
    CASE k = "father" -> r.father
      [] k = "mother" -> r.mother
      [] k = "trainer" -> r.trainer
      [] k = "birthday" -> r.birthday
      [] k = "color" -> r.color
      [] k = "serei" -> r.serei

\* a visit keeps every present field for which its detail result has nothing,
\* and all of them when the fetch or parse failed
KeepsPresentFields ==
    HorseVisit =>
        /\ \A k \in HorseKeys :
             ~Falsy(Field(horses[hi], k))
               /\ (~applied'.ok \/ Falsy(Field(applied'.detail, k)))
               => Field(horses'[hi], k) = Field(horses[hi], k)
        /\ horses[hi].pastRaces # <<>>
             /\ (~applied'.ok \/ applied'.detail.pastRaces = <<>>)
             => horses'[hi].pastRaces = horses[hi].pastRaces
        /\ \A i \in 1..Len(horses) : \A k \in HorseKeys :
             ~Falsy(Field(horses[i], k)) => ~Falsy(Field(horses'[i], k))

\* C7: ENRICH_HORSE never replaces a present horse field with an empty one:
\* for father, mother, trainer, birthday, color, serei and pastRaces, a field
\* that is non-empty before a horse's detail result is applied, and for which
\* the result has an empty value, is unchanged afterwards; the same holds
\* when the detail fetch or parse fails.
C7_NoBlankOverwrite == [][KeepsPresentFields]_vars

\* a horse with a trainer from the racecard was given a detail result that
\* has a dam but no trainer: it took the dam and kept its trainer
C7_Witness ==
    /\ e_pc = "enrich_horse"
    /\ hi = 2
    /\ applied.ok
    /\ applied.detail.trainer = ""
    /\ applied.detail.mother # ""
    /\ horses[1].trainer = "Trainer A"
    /\ horses[1].mother = applied.detail.mother

\* C8: within one call with fetch_jockey_detail set, for every jockey name
\* borne by a horse with a jockey URL the static fetch of the jockey's detail
\* page is issued exactly once, whether it succeeds or fails.
C8_OneFetchPerJockey ==
    e_pc = "done" /\ fetch_jockey_detail =>
        \A n \in JockeyNames :
            (\E i \in 1..Len(horses) :
                horses[i].jockey = n /\ ~Falsy(horses[i].jockey_url))
            => j_fetches[n] = 1

\* the jockey keys of a horse dict are all empty
JockeyFieldsEmpty(h) ==
    /\ Falsy(h.birthday) /\ Falsy(h.height) /\ Falsy(h.weight)
    /\ Falsy(h.first_license) /\ Falsy(h.stats_current) /\ Falsy(h.stats_total)

\* C9: per-item failures of the detail enrichment never escalate: when the
\* call returns every horse was visited by the loops that ran, a horse whose
\* detail failed carries a detail_error string, and the horses of a jockey
\* whose detail failed have empty jockey fields.
C9_FailuresStayLocal ==
    e_pc = "done" =>
        /\ fetch_horse_detail => \A i \in 1..Len(horses) : h_outcome[i] # "not visited"
        /\ \A i \in 1..Len(horses) :
             h_outcome[i] = "failed" => horses[i].detail_error # Absent
        /\ fetch_jockey_detail =>
             \A i \in 1..Len(horses) :
                horses[i].jockey \in j_failed => JockeyFieldsEmpty(horses[i])

\* what the code does guarantee for jockeys: the horses of a jockey for whom
\* no attempt succeeded have empty jockey fields
NoDetailNoFields ==
    e_pc = "done" /\ fetch_jockey_detail =>
        \A i \in 1..Len(horses) :
            Falsy(horses[i].jockey) \/ jockey_seen[horses[i].jockey] = NotSeen
                => JockeyFieldsEmpty(horses[i])

(***************************************************************************)
(* Properties of the FETCH stage                                           *)
(***************************************************************************)

\* the source the arguments select, in the order the branches test them
SelectedSource ==
    IF all_venues THEN "browser all venues"
    ELSE IF source_url # "" THEN "url"
    ELSE IF use_playwright THEN "browser one venue"
    ELSE "file"

\* C17: for every combination of all_venues, source_url, use_playwright,
\* venue_keyword and the presence of the local file, a call takes its racecard
\* markup from at most one source, the selected one, and a call that reaches
\* PARSE from exactly one; when single-venue browser navigation is selected
\* and venue_keyword is empty the call aborts with no browser session opened.
C17_OneSource ==
    /\ Len(io) <= 1
    /\ \A i \in 1..Len(io) : io[i] = SelectedSource
    /\ stage = "PARSE" => Len(io) = 1
    /\ (SelectedSource = "browser one venue" /\ venue_keyword = ""
          /\ stage \in {"PARSE", "ABORTED"} /\ reason # "window")
         => stage = "ABORTED" /\ reason = "venue_keyword is required" /\ io = <<>>

\* a single-venue browser call without venue_keyword was aborted before any
\* fetch, although an explicit file was there to read
C17_Witness ==
    /\ SelectedSource = "browser one venue"
    /\ venue_keyword = ""
    /\ html_exists
    /\ stage = "ABORTED"
    /\ reason = "venue_keyword is required"
    /\ io = <<>>

\* C18: ENRICH_JOCKEY changes only jockey-detail fields of a horse record:
\* no step of the stage changes a horse's carried weight or its birth date,
\* so the horse roster built from the records is the same after the stage as
\* before it.
C18_JockeyStageFrame ==
    [][e_pc = "enrich_jockey" =>
         /\ \A i \in 1..Len(horses) :
              /\ horses'[i].weight = horses[i].weight
              /\ horses'[i].birthday = horses[i].birthday
         /\ build_horse_json(horses') = build_horse_json(horses)]_vars

\* C19: when the call returns, with or without enrichment, every horse record
\* under days equals, field by field, the record of the same horse in the flat
\* venues sequence.
C19_ViewsAgree ==
    e_pc = "done" =>
        \A i \in 1..Len(horses) : day_horses[i] = horses[i]

(***************************************************************************)
(* Properties of the date line                                             *)
(***************************************************************************)

\* the weekday character the line carries in brackets, "" when it has none
BracketChar(text) ==
    IF \E i \in 1..Len(text) : text[i] = "("
      THEN text[(CHOOSE i \in 1..Len(text) : text[i] = "(") + 1]
      ELSE ""

\* the key of the weekday a character names
KeyOfChar(c) ==
    CASE c = "DO" -> "saturday"
      [] c = "NICHI" -> "sunday"
      [] c = "GETSU" -> "monday"
      [] c = "KA" -> "tuesday"
      [] c = "SUI" -> "wednesday"
      [] c = "MOKU" -> "thursday"
      [] c = "KIN" -> "friday"
      [] OTHER -> "unknown"

\* C16: the weekday key of a parsed page is the key of the weekday its date
\* line names in brackets, Saturday to Friday alike, and unknown only when the
\* line carries no weekday character.
C16_KeyNamesWeekday ==
    day_key # "" =>
        /\ BracketChar(date_text) # "" => day_key = KeyOfChar(BracketChar(date_text))
        /\ day_key = "unknown" => BracketChar(date_text) = ""

(***************************************************************************)
(* Properties of the all-venues merge                                      *)
(***************************************************************************)
\* the venue name parse_syutsuba_html read from the date line of page i
ParsedVenueOf(i) == extract_venue_from_date(DateLineOf(venues_html[i][2]))

\* C11: every venue block of the flat venues sequence has for session the
\* announcement text its page was fetched under, and for name the venue name
\* parsed from the page's date line, the announcement text only when no
\* venue name was parsed.
C11_MergeLabels ==
    \A i \in 1..Len(merged.venues) :
        /\ merged.venues[i].session = venues_html[i][1]
        /\ merged.venues[i].name =
              IF ParsedVenueOf(i) # "" THEN ParsedVenueOf(i) ELSE venues_html[i][1]

\* the entries of days that parsing and merging put there
ParsedDays == 1..(Len(merged.days) - (IF aliased THEN 1 ELSE 0))

DaysCount(x) ==
    Cardinality({ t \in ParsedDays \X (1..MaxVenues + 1) \X (1..1) :
        /\ t[2] <= Len(heap[merged.days[t[1]].ref].venues)
        /\ t[3] <= Len(heap[merged.days[t[1]].ref].venues[t[2]].races)
        /\ heap[merged.days[t[1]].ref].venues[t[2]].races[t[3]].race_id = x })

FlatCount(x) ==
    Cardinality({ t \in (1..Len(merged.venues)) \X (1..1) :
        /\ t[2] <= Len(merged.venues[t[1]].races)
        /\ merged.venues[t[1]].races[t[2]].id = x })

RaceIds == [venue : VenueNames \cup {"unknown"}, number : 1..1]

\* C12: after the first parsed page and after every merge step, each race is
\* reachable through days (the aliased key left out) as many times as it is
\* in the flat venues sequence.
C12_ViewsHoldSameRaces ==
    \A x \in RaceIds : DaysCount(x) = FlatCount(x)

C12_Witness ==
    /\ m_pc = "done"
    /\ Len(merged.venues) = 3
    /\ Len(heap) = 2
    /\ aliased
    /\ \E x \in RaceIds : FlatCount(x) = 2

RECURSIVE ConcatInFetchOrder(_)
ConcatInFetchOrder(n) ==
    IF n = 0 THEN <<>>
    ELSE ConcatInFetchOrder(n - 1) \o ParsedPair(venues_html[n]).venues

RECURSIVE MergeRange(_, _)
MergeRange(from, to) ==
    IF to < from THEN <<>>
    ELSE MergeVenues(MergeRange(from, to - 1), ParsedPair(venues_html[to]).venues)

\* C13: the flat venues sequence after merging n parsed results is the
\* concatenation of their venue blocks in fetch order, and merging any two
\* consecutive parts of the list one after the other gives the same sequence.
C13_MergeKeepsOrder ==
    merged.set =>
        /\ merged.venues = ConcatInFetchOrder(mi - 1)
        /\ \A k \in 0..(mi - 1) :
              MergeVenues(MergeRange(1, k), MergeRange(k + 1, mi - 1)) = merged.venues

C13_Witness ==
    /\ m_pc = "done"
    /\ Len(merged.venues) = 3
    /\ merged.venues[1] # merged.venues[2]
    /\ merged.venues[2] # merged.venues[3]

\* C14: when the requested target_day is absent from days, the call adds the
\* key bound to the same block as the first present key and copies nothing;
\* when it is present, or none is given, days is left as it was.
C14_AliasSharesBlock ==
    [][(m_pc = "merge" /\ m_pc' = "done") =>
         /\ heap' = heap
         /\ IF target_day' # "" /\ ~HasKey(merged.days, target_day')
              THEN /\ Len(merged'.days) = Len(merged.days) + 1
                   /\ SubSeq(merged'.days, 1, Len(merged.days)) = merged.days
                   /\ merged'.days[Len(merged'.days)].key = target_day'
                   /\ RefOf(merged'.days, target_day') =
                         RefOf(merged'.days, merged.days[1].key)
              ELSE merged'.days = merged.days]_vars

C14_Witness ==
    /\ m_pc = "done"
    /\ aliased
    /\ target_day = "monday"
    /\ Len(merged.days) = 3
    /\ merged.days[3].ref = merged.days[1].ref

(***************************************************************************)
(* Properties of sanitize_race_data                                        *)
(***************************************************************************)
RemovedKeys == {"odds", "detail_url", "jockey_url"}

\* a horse dict that is h without the removed keys and nothing else changed
HorseStripped(out, h) ==
    /\ DOMAIN out = DOMAIN h \ RemovedKeys
    /\ \A k \in DOMAIN out : out[k] = h[k]

\* venue lists that differ only in the removed keys of their horses
VenuesStripped(out, in) ==
    /\ Len(out) = Len(in)
    /\ \A i \in 1..Len(in) :
          /\ DOMAIN out[i] = DOMAIN in[i]
          /\ \A k \in DOMAIN in[i] \ {"races"} : out[i][k] = in[i][k]
          /\ Len(out[i].races) = Len(in[i].races)
          /\ \A j \in 1..Len(in[i].races) :
                /\ DOMAIN out[i].races[j] = DOMAIN in[i].races[j]
                /\ \A k \in DOMAIN in[i].races[j] \ {"horses"} :
                      out[i].races[j][k] = in[i].races[j][k]
                /\ Len(out[i].races[j].horses) = Len(in[i].races[j].horses)
                /\ \A n \in 1..Len(in[i].races[j].horses) :
                      HorseStripped(out[i].races[j].horses[n],
                                    in[i].races[j].horses[n])

DocumentStripped(out, in) ==
    /\ DOMAIN out = DOMAIN in
    /\ \A k \in DOMAIN in \ {"days", "venues"} : out[k] = in[k]
    /\ VenuesStripped(out.venues, in.venues)
    /\ DOMAIN out.days = DOMAIN in.days
    /\ \A d \in DOMAIN in.days :
          /\ DOMAIN out.days[d] = DOMAIN in.days[d]
          /\ \A k \in DOMAIN in.days[d] \ {"venues"} : out.days[d][k] = in.days[d][k]
          /\ VenuesStripped(out.days[d].venues, in.days[d].venues)

\* C15: the returned document is the aggregate without the keys odds,
\* detail_url and jockey_url in every horse of the flat view and of every
\* day, everything else kept; the aggregate passed in is as it was; and
\* sanitizing the result again returns the result.
C15_SanitizeStripsThreeKeys ==
    /\ s_pc \in {"returned", "again"} =>
          /\ DocumentStripped(returned, given)
          /\ mem[caller_data] = given
    /\ s_pc = "again" => again = returned

C15_Witness ==
    /\ s_pc = "again"
    /\ "monday" \in DOMAIN given.days
    /\ Len(given.venues[1].races[1].horses) = 2
    /\ Len(given.days["saturday"].venues[1].races[1].horses) = 2
    /\ given.venues[1].races[1].horses # given.days["saturday"].venues[1].races[1].horses
    /\ returned # given

====
